---- MODULE Spec2Model ----
(***************************************************************************)
(* nanorpc::version::library::version                                      *)
(*                                                                         *)
(* The header holds four constexpr noexcept accessors.  major(), minor()   *)
(* and patch() return integer literals by value; get_as_string() returns a *)
(* char const* to a string literal, an array of static storage duration    *)
(* that every caller reads through the returned pointer.                   *)
(*                                                                         *)
(* The model runs NumCallers concurrent callers against the accessors.     *)
(* A call is two steps (invoke, return) so that calls of different callers *)
(* overlap in every possible way.                                          *)
(***************************************************************************)
EXTENDS Integers, Sequences, FiniteSets, TLC

\* number of concurrent callers
NumCallers == 2

Callers == 1..NumCallers

\* the member functions of struct version
Accessors == {"major", "minor", "patch", "get_as_string"}

\* the terminating null character of a string literal
NUL == "NUL"

VARIABLES
    literal,    \* the bytes of the string literal in static storage
    pc,         \* pc[c]: "idle", or the accessor caller c is inside
    seen        \* seen[c][a]: outcome of caller c's latest completed call of a

vars == <<literal, pc, seen>>

----------------------------------------------------------------------------
\* the accessors

\* the characters of a C string: the bytes before the first NUL
CStr(bytes) ==
    LET n == CHOOSE i \in 1..Len(bytes) :
                 bytes[i] = NUL /\ \A j \in 1..(i - 1) : bytes[j] # NUL
    IN  SubSeq(bytes, 1, n - 1)

\* a version bump that forgot the string
major_bumped == 1 + 1

major == 1

\* a hidden mutation: the first completed call changes what later calls return
minor_sticky == IF \E c \in Callers : seen[c].minor.kind = "value" THEN 2 ELSE 1

\* an unsynchronised static: overlapping calls disturb each other
minor_racy == IF Cardinality({c \in Callers : pc[c] = "minor"}) > 1 THEN 0 ELSE 1

minor == 1

\* a copy-and-paste slip
patch_slip == 1 - 1

patch == 1

\* a stale literal
get_as_string_stale == <<"1", ".", "1", ".", "0">>

\* what a caller reads through the returned pointer
get_as_string == CStr(literal)

\* an accessor that throws instead of returning
Returned_throws(v) == [kind |-> "exception", val |-> v]

\* the accessors are noexcept and every path ends in a return statement
Returned(v) == [kind |-> "value", val |-> v]

\* no call of the accessor has completed yet
NotCalled == [kind |-> "none"]

----------------------------------------------------------------------------
\* the callers

Init ==
    /\ literal = <<"1", ".", "1", ".", "1", NUL>>
    /\ pc = [c \in Callers |-> "idle"]
    /\ seen = [c \in Callers |-> [a \in Accessors |-> NotCalled]]

\* caller c enters one of the accessors; nothing guards the entry
Invoke(c) ==
    /\ pc[c] = "idle"
    /\ \E a \in Accessors : pc' = [pc EXCEPT ![c] = a]
    /\ UNCHANGED <<literal, seen>>

Ret_major(c) ==
    /\ pc[c] = "major"
    /\ seen' = [seen EXCEPT ![c].major = Returned(major)]
    /\ pc' = [pc EXCEPT ![c] = "idle"]
    /\ UNCHANGED literal

\* an accessor that waits until no other caller is inside the library
Ret_minor_blocking(c) ==
    /\ pc[c] = "minor"
    /\ \A d \in Callers \ {c} : pc[d] = "idle"
    /\ seen' = [seen EXCEPT ![c].minor = Returned(minor)]
    /\ pc' = [pc EXCEPT ![c] = "idle"]
    /\ UNCHANGED literal

Ret_minor(c) ==
    /\ pc[c] = "minor"
    /\ seen' = [seen EXCEPT ![c].minor = Returned(minor)]
    /\ pc' = [pc EXCEPT ![c] = "idle"]
    /\ UNCHANGED literal

Ret_patch(c) ==
    /\ pc[c] = "patch"
    /\ seen' = [seen EXCEPT ![c].patch = Returned(patch)]
    /\ pc' = [pc EXCEPT ![c] = "idle"]
    /\ UNCHANGED literal

\* a tokenising accessor: cuts the shared literal at its first '.'
Ret_get_as_string_cutting(c) ==
    /\ pc[c] = "get_as_string"
    /\ seen' = [seen EXCEPT ![c].get_as_string = Returned(get_as_string)]
    /\ pc' = [pc EXCEPT ![c] = "idle"]
    /\ literal' = [literal EXCEPT ![2] = NUL]

Ret_get_as_string(c) ==
    /\ pc[c] = "get_as_string"
    /\ seen' = [seen EXCEPT ![c].get_as_string = Returned(get_as_string)]
    /\ pc' = [pc EXCEPT ![c] = "idle"]
    /\ UNCHANGED literal

\* the call caller c is inside completes
Return(c) ==
    \/ Ret_major(c)
    \/ Ret_minor(c)
    \/ Ret_patch(c)
    \/ Ret_get_as_string(c)

Next ==
    \E c \in Callers :
        \/ Invoke(c)
        \/ Ret_major(c)
        \/ Ret_minor(c)
        \/ Ret_patch(c)
        \/ Ret_get_as_string(c)

Spec == Init /\ [][Next]_vars

\* caller 1 keeps running; nothing is assumed about the other callers
LiveSpec == Spec /\ WF_vars(Return(1))

----------------------------------------------------------------------------
\* helpers of the properties

Done(c, a) == seen[c][a].kind # "none"

DoneAll(c) == \A a \in Accessors : Done(c, a)

Digit(d) == <<"0", "1", "2", "3", "4", "5", "6", "7", "8", "9">>[d + 1]

RECURSIVE Decimal(_)
\* the decimal text of a natural number, without padding
Decimal(n) == IF n < 10 THEN <<Digit(n)>> ELSE Decimal(n \div 10) \o <<Digit(n % 10)>>

TypeOK ==
    /\ literal \in Seq({"0", "1", ".", NUL})
    /\ pc \in [Callers -> Accessors \cup {"idle"}]
    /\ \A c \in Callers : DOMAIN seen[c] = Accessors

\* struct version: what its four members yield in the current state
version == [major |-> major, minor |-> minor, patch |-> patch, display |-> get_as_string]

----------------------------------------------------------------------------
\* the properties

\* C1: string-numeric consistency.  Whenever some caller has obtained the
\* string and some caller has obtained the three numbers, the string is the
\* decimal text of major, '.', the decimal text of minor, '.', the decimal
\* text of patch, and nothing else.
C1_StringNumericConsistency ==
    \A c, d \in Callers :
        (/\ Done(c, "get_as_string")
         /\ Done(d, "major") /\ Done(d, "minor") /\ Done(d, "patch"))
        => seen[c].get_as_string.val =
               Decimal(seen[d].major.val) \o <<".">> \o
               Decimal(seen[d].minor.val) \o <<".">> \o
               Decimal(seen[d].patch.val)

\* some caller has called all four accessors
C1_Witness == \E c \in Callers : DoneAll(c)

\* C2: every completed call of major(), minor() and patch() returned 1.
C2_NumbersAreOne ==
    \A c \in Callers : \A a \in {"major", "minor", "patch"} :
        Done(c, a) => seen[c][a].val = 1

\* every caller has called the three numeric accessors
C2_Witness ==
    \A c \in Callers : Done(c, "major") /\ Done(c, "minor") /\ Done(c, "patch")

\* C3: every completed call of get_as_string() returned the five characters
\* 1 . 1 . 1
C3_StringIsLiteral ==
    \A c \in Callers :
        Done(c, "get_as_string")
        => /\ Len(seen[c].get_as_string.val) = 5
           /\ seen[c].get_as_string.val = <<"1", ".", "1", ".", "1">>

\* every caller has called get_as_string() and is back
C3_Witness == \A c \in Callers : Done(c, "get_as_string") /\ pc[c] = "idle"

\* C4: determinism and idempotence.  A step never changes the outcome a
\* caller has already obtained from an accessor: a repeated call, whatever
\* calls came before it, yields what the earlier call of that accessor did.
C4_RepeatedCallsAgree ==
    [][\A c \in Callers : \A a \in Accessors :
           Done(c, a) => seen'[c][a] = seen[c][a]]_vars

\* a caller that has called every accessor is inside a further call
C4_Witness == \E c \in Callers : DoneAll(c) /\ pc[c] # "idle"

\* C5: concurrent reads agree and write nothing shared.  In every state of
\* every interleaving any two callers hold equal outcomes for an accessor
\* both have called (callers that ran alone included), and no step modifies
\* the only storage the callers share, the string literal.
C5_ConcurrentReadsAgree ==
    /\ [](\A c, d \in Callers : \A a \in Accessors :
              (Done(c, a) /\ Done(d, a)) => seen[c][a] = seen[d][a])
    /\ [][literal' = literal]_vars

\* all callers, each having called everything, are inside minor() at once
C5_Witness ==
    /\ NumCallers > 1
    /\ \A c \in Callers : DoneAll(c) /\ pc[c] = "minor"

\* C6: totality.  Every completed call produced a value; no call ended in
\* an exception or any other outcome.
C6_NoCallFails ==
    \A c \in Callers : \A a \in Accessors :
        Done(c, a) => seen[c][a].kind = "value"

\* every caller has completed a call of every accessor and is back
C6_Witness == \A c \in Callers : DoneAll(c) /\ pc[c] = "idle"

\* C7: no side effects.  No step changes the stored literal or what the four
\* members of struct version yield.
C7_DescriptorUnchanged ==
    [][literal' = literal /\ version' = version]_vars

\* every caller has called get_as_string() before and is inside it again
C7_Witness ==
    \A c \in Callers : Done(c, "get_as_string") /\ pc[c] = "get_as_string"

\* C9: a call caller 1 has started completes, with no assumption on what the
\* other callers do.
C9_CallsComplete == (pc[1] # "idle") ~> (pc[1] = "idle")

\* caller 1 is back from a call while every other caller sits inside a call
\* of the same accessor that it never completes
C9_Witness ==
    /\ Done(1, "minor") /\ pc[1] = "idle"
    /\ \A d \in Callers \ {1} : pc[d] = "minor" /\ \A a \in Accessors : ~Done(d, a)

====
